---- MODULE Spec2Model ----
(***************************************************************************)
(* A model of the realm ECS world (src/src/world.rs) with its entity       *)
(* allocator (entity.rs), archetypes and location map (storage.rs) and     *)
(* typed component storages (compactable.rs).                              *)
(*                                                                         *)
(* Rust indices are 0-based: ids, rows and slots keep their Rust values    *)
(* and a sequence s is read at Rust index i as s[i + 1].                   *)
(*                                                                         *)
(* A panic unwinds out of the running call.  The World is left as the      *)
(* unwinding found it and stays usable by a caller that catches the unwind *)
(* (std::panic::catch_unwind); `last.panicked` records that the last call  *)
(* ended this way.                                                         *)
(***************************************************************************)
EXTENDS Integers, Sequences, FiniteSets, TLC

VARIABLES
    entities,           \* World.entities: EntityLocationMap.locations
    entity_types,       \* World.entity_types: Vec<EntityType>
    entity_allocator,   \* World.entity_allocator: EntityAllocator
    components,         \* World.components: ComponentMap.data
    allocation_buffer,  \* World.allocation_buffer: Vec<Entity>
    writer,             \* the write session in progress, if any
    last                \* the last call on the world and how it ended

vars == <<entities, entity_types, entity_allocator, components,
          allocation_buffer, writer, last>>

----------------------------------------------------------------------------
\* Bounds of the model.

\* Handles the allocator may mint (max_id never exceeds it).
MaxEntities == 3

\* Archetypes the world may hold.
MaxEntityTypes == 3

----------------------------------------------------------------------------
\* Component types and values.

\* The component types of tests/test_world.rs.
ComponentTypes == {"Position", "Velocity", "Acceleration"}

\* The component payloads of tests/test_world.rs, by the number their
\* fields are set to.
Values == {0, 1}

\* Entity handles a caller may pass to remove: minted ones and one more.
EntityIds == 0..MaxEntities

\* `ComponentTypeIndex::of::<T>()`: the identity of the type T.
ComponentTypeIndex_of(T) == T

Range(s) == {s[i] : i \in 1..Len(s)}

\* Vec indexing v[i] with a Rust index i.
At(s, i) == s[i + 1]

\* Whether Rust index i is in bounds of s.
InBounds(s, i) == i >= 0 /\ i < Len(s)

\* usize::MAX, the sentinel CompactableStorage::insert_entity_type fills
\* unregistered index slots with; the largest integer of the model stands
\* for it (it is only ever compared with lengths far below it).
USIZE_MAX == 2147483647

----------------------------------------------------------------------------
\* entity.rs: the entity allocator.

\* EntityAllocator::new
EntityAllocator_new == [max_id |-> 0, available_entities |-> <<>>]

\* An allocator that reuses the handle freed last.
allocate_newest_first(a) ==
    IF a.available_entities # <<>>
    THEN [allocator |-> [a EXCEPT !.available_entities =
                             SubSeq(@, 1, Len(@) - 1)],
          entity    |-> a.available_entities[Len(a.available_entities)]]
    ELSE [allocator |-> [a EXCEPT !.max_id = @ + 1],
          entity    |-> a.max_id]

\* EntityAllocator::allocate: the front of the free queue, else a new id.
allocate(a) ==
    IF a.available_entities # <<>>
    THEN [allocator |-> [a EXCEPT !.available_entities = Tail(@)],
          entity    |-> Head(a.available_entities)]
    ELSE [allocator |-> [a EXCEPT !.max_id = @ + 1],
          entity    |-> a.max_id]

\* A deallocate that enqueues whatever handle it is given.
deallocate_unvalidated(a, entity) ==
    [a EXCEPT !.available_entities = Append(@, entity)]

\* EntityAllocator::deallocate: enqueue a handle below max_id, ignore others.
deallocate(a, entity) ==
    IF entity < a.max_id
    THEN [a EXCEPT !.available_entities = Append(@, entity)]
    ELSE a

\* The allocator read as an iterator of fresh handles by push_components:
\* next() is Some(allocate()).
EntityAllocator_next(a) == allocate(a)

----------------------------------------------------------------------------
\* A local binding: Let(v, LAMBDA x : e) is e with x bound to v.
Let(v, In(_)) == In(v)

----------------------------------------------------------------------------
\* compactable.rs: the packed array of one archetype.

\* RawComponentArray::with_capacity(0) for a sized type: no allocation.
RawComponentArray_with_capacity_0 == [ptr |-> <<"dangling", 0>>, capacity |-> 0]

\* RawComponentArray::with_capacity for a zero-sized type: no allocation,
\* and usize::MAX as the capacity.
RawComponentArray_with_capacity_zero_sized ==
    [ptr |-> <<"dangling", 0>>, capacity |-> USIZE_MAX]

\* RawComponentArray::grow: the debug assertion, then (re)allocation; the
\* buffer of the new capacity may lie at another address than the old one,
\* so the pointer is named by the capacity it was allocated with.
RawComponentArray_grow(raw, new_capacity) ==
    IF ~(raw.capacity < new_capacity)
    THEN [ok |-> FALSE, raw |-> raw]
    ELSE [ok  |-> TRUE,
          raw |-> [ptr |-> <<"heap", new_capacity>>, capacity |-> new_capacity]]

\* ComponentArray::new
ComponentArray_new ==
    [inner |-> RawComponentArray_with_capacity_0,
     length |-> 0, capacity |-> 0, data |-> <<>>]

\* ComponentArray::new for a zero-sized type.
ComponentArray_new_zero_sized ==
    [inner |-> RawComponentArray_with_capacity_zero_sized,
     length |-> 0, capacity |-> 0, data |-> <<>>]

\* ComponentArray::as_raw_slice
as_raw_slice(arr) == <<arr.inner.ptr, arr.length>>

\* A swap_remove that takes the last value whatever the row.
ComponentArray_remove_last(arr, index) ==
    IF ~(index < arr.length)
    THEN [ok |-> FALSE, array |-> arr, value |-> 0]
    ELSE [ok    |-> TRUE,
          array |-> [arr EXCEPT !.data = SubSeq(@, 1, arr.length - 1),
                                !.length = arr.length - 1],
          value |-> arr.data[arr.length]]

\* ComponentArray::swap_remove: swap the row with the last one unless it is
\* the last, read the last, shorten by one.
ComponentArray_swap_remove(arr, index) ==
    IF ~(index < arr.length)
    THEN [ok |-> FALSE, array |-> arr, value |-> 0]
    ELSE Let(IF index < arr.length - 1
             THEN [arr.data EXCEPT ![index + 1] = arr.data[arr.length],
                                   ![arr.length] = arr.data[index + 1]]
             ELSE arr.data,
             LAMBDA swapped :
               [ok    |-> TRUE,
                array |-> [arr EXCEPT !.data = SubSeq(swapped, 1, arr.length - 1),
                                      !.length = arr.length - 1],
                value |-> swapped[arr.length]])

\* ComponentArray::reserve with ComponentArray::grow: the capacity compared
\* is the array's own field, the one grown is the inner buffer's.
ComponentArray_reserve(arr, additional) ==
    IF arr.capacity < arr.length + additional
    THEN Let(RawComponentArray_grow(arr.inner, arr.length + additional),
             LAMBDA g : [ok |-> g.ok, array |-> [arr EXCEPT !.inner = g.raw]])
    ELSE [ok |-> TRUE, array |-> arr]

\* ComponentArray::extend_memcopy: reserve, copy count values to the end.
ComponentArray_extend_memcopy(arr, values) ==
    Let(ComponentArray_reserve(arr, Len(values)), LAMBDA r :
        IF ~r.ok
        THEN [ok |-> FALSE, array |-> arr]
        ELSE [ok |-> TRUE,
              array |-> [r.array EXCEPT !.data = @ \o values,
                                        !.length = @ + Len(values)]])

----------------------------------------------------------------------------
\* compactable.rs: the typed storage of one component type.

\* CompactableStorage::default
CompactableStorage_default ==
    [length |-> 0, indices |-> <<>>, views |-> <<>>, components |-> <<>>]

\* CompactableStorage::insert_entity_type: a new empty array and view at the
\* next slot; the index table is padded with usize::MAX up to the archetype.
CompactableStorage_insert_entity_type(s, entity_type_index) ==
    Let(IF entity_type_index >= Len(s.indices)
        THEN s.indices \o
             [i \in 1..(entity_type_index + 1 - Len(s.indices)) |-> USIZE_MAX]
        ELSE s.indices,
        LAMBDA resized :
          [s EXCEPT !.views = Append(@, as_raw_slice(ComponentArray_new)),
                    !.components = Append(@, ComponentArray_new),
                    !.indices = [resized EXCEPT ![entity_type_index + 1] =
                                                    Len(s.views)]])

\* CompactableStorage::insert_entity_type of the storage of a zero-sized
\* type: the same, the new array being that of a zero-sized type.
CompactableStorage_insert_entity_type_zero_sized(s, entity_type_index) ==
    Let(CompactableStorage_insert_entity_type(s, entity_type_index),
        LAMBDA r :
          [r EXCEPT !.views[Len(r.views)] =
                        as_raw_slice(ComponentArray_new_zero_sized),
                    !.components[Len(r.components)] =
                        ComponentArray_new_zero_sized])

\* CompactableStorage::extend_memcopy_raw (and extend_memcopy, which forwards
\* to it): indices[archetype] and components[slot] are indexed, so an
\* archetype that was never registered panics.
extend_memcopy_raw(s, entity_type_index, values) ==
    IF ~InBounds(s.indices, entity_type_index)
    THEN [ok |-> FALSE, storage |-> s]
    ELSE Let(At(s.indices, entity_type_index), LAMBDA view_index :
         IF ~InBounds(s.components, view_index)
         THEN [ok |-> FALSE, storage |-> s]
         ELSE Let(ComponentArray_extend_memcopy(At(s.components, view_index),
                                                values),
                  LAMBDA r :
                    IF ~r.ok
                    THEN [ok |-> FALSE, storage |-> s]
                    ELSE [ok |-> TRUE,
                          storage |->
                            [s EXCEPT !.components[view_index + 1] = r.array,
                                      !.views[view_index + 1] = as_raw_slice(r.array),
                                      !.length = @ + Len(values)]]))

\* CompactableStorage::swap_remove_internal (and swap_remove, which forwards
\* to it).
swap_remove_internal(s, entity_type, index) ==
    IF ~InBounds(s.indices, entity_type)
    THEN [ok |-> FALSE, storage |-> s, value |-> 0]
    ELSE Let(At(s.indices, entity_type), LAMBDA view_index :
         IF ~InBounds(s.components, view_index)
         THEN [ok |-> FALSE, storage |-> s, value |-> 0]
         ELSE Let(ComponentArray_swap_remove(At(s.components, view_index), index),
                  LAMBDA r :
                    IF ~r.ok
                    THEN [ok |-> FALSE, storage |-> s, value |-> 0]
                    ELSE [ok |-> TRUE,
                          value |-> r.value,
                          storage |->
                            [s EXCEPT !.components[view_index + 1] = r.array,
                                      !.views[view_index + 1] = as_raw_slice(r.array),
                                      !.length = @ - 1]]))

\* CompactableStorage::update_view
update_view(s, view_index) ==
    [s EXCEPT !.views[view_index + 1] =
                  as_raw_slice(At(s.components, view_index))]

\* A get that reads the first slot for an archetype the index table has no
\* slot for.
get_first_slot(s, entity_type) ==
    IF s.views = <<>>
    THEN [some |-> FALSE, slice |-> <<>>]
    ELSE [some |-> TRUE, slice |-> s.components[1].data]

\* CompactableStorage::get (and get_mut, which reads the same way): the view
\* of the archetype's slot, None when the index table or the views have no
\* such entry.  The slice is the memory the view (ptr, len) names, which is
\* the data of the array that owns ptr.
get(s, entity_type) ==
    IF ~InBounds(s.indices, entity_type)
    THEN [some |-> FALSE, slice |-> <<>>]
    ELSE IF ~InBounds(s.views, At(s.indices, entity_type))
    THEN [some |-> FALSE, slice |-> <<>>]
    ELSE [some  |-> TRUE,
          slice |-> SubSeq(At(s.components, At(s.indices, entity_type)).data,
                           1, At(s.views, At(s.indices, entity_type))[2])]

\* A len that counts the component values.
CompactableStorage_length(s) == s.length

\* ComponentStorage::len for CompactableStorage: the number of arrays.
CompactableStorage_len(s) == Len(s.components)

\* ComponentStorage::is_empty
CompactableStorage_is_empty(s) == CompactableStorage_len(s) = 0

\* A move_component that leaves the views as they were.
move_component_stale_views(s, src, index, dst) ==
    IF ~InBounds(s.indices, src) \/ ~InBounds(s.indices, dst)
    THEN [ok |-> FALSE, storage |-> s]
    ELSE IF ~InBounds(s.components, At(s.indices, src))
    THEN [ok |-> FALSE, storage |-> s]
    ELSE
    Let(ComponentArray_swap_remove(At(s.components, At(s.indices, src)), index),
        LAMBDA r :
        IF ~r.ok
        THEN [ok |-> FALSE, storage |-> s]
        ELSE
        Let([s EXCEPT !.components[At(s.indices, src) + 1] = r.array],
            LAMBDA s1 :
            IF ~InBounds(s1.components, At(s.indices, dst))
            THEN [ok |-> FALSE, storage |-> s1]
            ELSE
            Let(ComponentArray_extend_memcopy(
                    At(s1.components, At(s.indices, dst)), <<r.value>>),
                LAMBDA e :
                  IF ~e.ok
                  THEN [ok |-> FALSE, storage |-> s1]
                  ELSE [ok |-> TRUE,
                        storage |->
                          [s1 EXCEPT !.components[At(s.indices, dst) + 1] =
                                         e.array]])))

\* CompactableStorage::move_component: swap_remove from the source array,
\* append the value to the destination array, then update both views.  The
\* storage's length is not touched.  A panic on the way leaves the source
\* array shortened and its view as it was.
move_component(s, src, index, dst) ==
    Let(move_component_stale_views(s, src, index, dst), LAMBDA r :
        IF ~r.ok
        THEN r
        ELSE [ok |-> TRUE,
              storage |-> update_view(update_view(r.storage, At(s.indices, src)),
                                      At(s.indices, dst))])

\* CompactableStorage::transfer_component: swap_remove_internal here, then
\* extend_memcopy_raw of the one value on the opaque destination storage,
\* with no downcast.  A destination of the same component type reads the
\* value, another one reads its bytes as the value `reinterpreted`.
transfer_component(s, src, index, dst, dst_storage, same_type, reinterpreted) ==
    Let(swap_remove_internal(s, src, index), LAMBDA r :
        IF ~r.ok
        THEN [ok |-> FALSE, storage |-> s, dst_storage |-> dst_storage]
        ELSE Let(extend_memcopy_raw(
                     dst_storage, dst,
                     <<IF same_type THEN r.value ELSE reinterpreted>>),
                 LAMBDA e :
                   [ok |-> e.ok, storage |-> r.storage,
                    dst_storage |-> e.storage]))

\* CompactableStorage::transfer_entity_type: downcast the destination
\* (same_type tells whether it succeeds), move the count from one length to
\* the other, then swap the arrays when the destination array is empty and
\* else append the source's values (extend_memcopy_raw adds the count to the
\* destination's length once more) and put a new array in the source's slot.
transfer_entity_type(s, src, dst, dst_storage, same_type) ==
    IF ~same_type
       \/ ~InBounds(s.indices, src) \/ ~InBounds(dst_storage.indices, dst)
    THEN [ok |-> FALSE, storage |-> s, dst_storage |-> dst_storage]
    ELSE IF ~InBounds(s.components, At(s.indices, src))
    THEN [ok |-> FALSE, storage |-> s, dst_storage |-> dst_storage]
    ELSE
    Let(At(s.indices, src), LAMBDA src_index :
    Let(At(dst_storage.indices, dst), LAMBDA dst_index :
    Let(At(s.components, src_index), LAMBDA src_array :
    Let([s EXCEPT !.length = @ - src_array.length], LAMBDA s1 :
    Let([dst_storage EXCEPT !.length = @ + src_array.length], LAMBDA d1 :
        IF ~InBounds(d1.components, dst_index)
        THEN [ok |-> FALSE, storage |-> s1, dst_storage |-> d1]
        ELSE IF At(d1.components, dst_index).length = 0
        THEN [ok |-> TRUE,
              storage |->
                update_view([s1 EXCEPT !.components[src_index + 1] =
                                           At(d1.components, dst_index)],
                            src_index),
              dst_storage |->
                update_view([d1 EXCEPT !.components[dst_index + 1] = src_array],
                            dst_index)]
        ELSE
        Let(extend_memcopy_raw(d1, dst, get(s1, src).slice), LAMBDA e :
            IF ~e.ok
            THEN [ok |-> FALSE, storage |-> s1, dst_storage |-> d1]
            ELSE [ok |-> TRUE,
                  storage |->
                    update_view([s1 EXCEPT !.components[src_index + 1] =
                                               ComponentArray_new],
                                src_index),
                  dst_storage |-> update_view(e.storage, dst_index)]))))))

----------------------------------------------------------------------------
\* storage.rs: layouts, archetypes and the location map.

\* EntityLayout::default / EntityLayout::new: no component types.
EntityLayout_default == [components |-> <<>>, constructors |-> <<>>]

\* EntityLayout::register_component::<T>: append T's id and the thunk that
\* builds T's storage (named here by the type it is for).
register_component(layout, T) ==
    [components   |-> Append(layout.components, ComponentTypeIndex_of(T)),
     constructors |-> Append(layout.constructors, T)]

\* EntityLayout::contains_component
EntityLayout_contains_component(layout, T) ==
    ComponentTypeIndex_of(T) \in Range(layout.components)

\* EntityType::new
EntityType_new(index, layout) ==
    [index |-> index, entities |-> <<>>, layout |-> layout]

\* Vec::swap_remove on a list of entities, row in bounds: the last entity
\* takes the place of the removed one.
Vec_swap_remove(s, row) ==
    LET len == Len(s)
    IN  SubSeq(IF row < len - 1 THEN [s EXCEPT ![row + 1] = s[len]] ELSE s,
               1, len - 1)

\* A swap_remove that closes the gap by shifting the later rows down.
EntityType_remove_shifting(entity_type, entity_index) ==
    [entity_type EXCEPT !.entities =
        SubSeq(@, 1, entity_index) \o SubSeq(@, entity_index + 2, Len(@))]

\* EntityType::swap_remove
EntityType_swap_remove(entity_type, entity_index) ==
    [entity_type EXCEPT !.entities = Vec_swap_remove(@, entity_index)]

\* EntityType::push: the entity is appended to the entity list.
EntityType_push(entity_type, entity) ==
    [entity_type EXCEPT !.entities = Append(@, entity)]

\* EntityType::contains_component_value
contains_component_value(entity_type, index) ==
    index < Len(entity_type.entities)

\* EntityLocation
EntityLocation(type_id, component_id) ==
    [type_id |-> type_id, component_id |-> component_id]

\* EntityLocationMap::insert: the body is todo!(), which panics.
EntityLocationMap_insert(locations, new_entities, entity_type, base) ==
    [ok |-> FALSE, locations |-> locations, replaced |-> <<>>]

\* EntityLocationMap::set
EntityLocationMap_set(locations, entity, location) ==
    [e \in DOMAIN locations \cup {entity} |->
        IF e = entity THEN location ELSE locations[e]]

\* EntityLocationMap::remove, the map it leaves.
EntityLocationMap_remove(locations, entity) ==
    [e \in DOMAIN locations \ {entity} |-> locations[e]]

----------------------------------------------------------------------------
\* world.rs: component sources.  A source is Some((T1, T2)) with one value
\* of each type, or None; a bare pair behaves as Some of it.

Sources ==
    [some : BOOLEAN, t1 : ComponentTypes, t2 : ComponentTypes,
     v1 : Values, v2 : Values]

\* Sources that hold a pair.
PairSources == {src \in Sources : src.some}

\* One representative of the source None.
NoneSource ==
    [some |-> FALSE, t1 |-> "Position", t2 |-> "Position", v1 |-> 0, v2 |-> 0]

\* A pair filter that takes the order of the pair into account.
PairFilter_ordered(T1, T2, component_types) ==
    component_types = <<ComponentTypeIndex_of(T1), ComponentTypeIndex_of(T2)>>

\* PairFilter::matches_layout
PairFilter_matches_layout(T1, T2, component_types) ==
    LET type_array == <<ComponentTypeIndex_of(T1), ComponentTypeIndex_of(T2)>>
    IN  /\ Len(type_array) = Len(component_types)
        /\ \A i \in 1..Len(type_array) :
               type_array[i] \in Range(component_types)

\* LayoutFilter for Option<T>: None matches nothing.
matches_layout(src, component_types) ==
    IF src.some
    THEN PairFilter_matches_layout(src.t1, src.t2, component_types)
    ELSE FALSE

\* SingleEntity::layout
SingleEntity_layout(src) ==
    register_component(register_component(EntityLayout_default, src.t1), src.t2)

\* EntityTypeSource::layout for Option<T>
layout(src) ==
    IF src.some THEN SingleEntity_layout(src) ELSE EntityLayout_default

----------------------------------------------------------------------------
\* world.rs: the world.  A world value w holds the four fields entities,
\* entity_types, entity_allocator, components.  An operation that can panic
\* yields [ok, w]: ok = FALSE is a panic and w the world the unwinding leaves.

\* World::new
World_new ==
    [entities         |-> << >>,
     entity_types     |-> << >>,
     entity_allocator |-> EntityAllocator_new,
     components       |-> << >>]

\* World::len
len(w) == Cardinality(DOMAIN w.entities)

\* World::is_empty
is_empty(w) == DOMAIN w.entities = {}

\* World::contains
contains(w, entity) == entity \in DOMAIN w.entities

\* ComponentMap::contains_component_id
contains_component_id(comps, type_id) == type_id \in DOMAIN comps

\* World::contains_component::<T>, by ComponentMap::contains_component.
contains_component(w, T) == ComponentTypeIndex_of(T) \in DOMAIN w.components

\* A component map that never enters a storage.
get_or_insert_never(comps, type_id) == comps

\* ComponentMap::get_or_insert_with: the storage the constructor builds is
\* entered only when the type has none.
get_or_insert_with(comps, type_id) ==
    IF type_id \in DOMAIN comps
    THEN comps
    ELSE [t \in DOMAIN comps \cup {type_id} |->
            IF t = type_id THEN CompactableStorage_default ELSE comps[t]]

\* The loop of World::insert_entity_type over missing_components.
RECURSIVE insert_missing(_, _)
insert_missing(comps, missing) ==
    IF missing = <<>>
    THEN comps
    ELSE insert_missing(get_or_insert_with(comps, Head(missing)), Tail(missing))

\* World::insert_entity_type: push the archetype, create the storages of
\* the layout's types that have none.  No storage is told of the archetype.
World_insert_entity_type(w, new_layout) ==
    [w     |-> [w EXCEPT
                  !.entity_types =
                      Append(@, EntityType_new(Len(w.entity_types), new_layout)),
                  !.components =
                      insert_missing(@,
                          SelectSeq(new_layout.components,
                              LAMBDA type_id :
                                  ~contains_component_id(w.components, type_id)))],
     index |-> Len(w.entity_types)]

\* World::get_entity_type_for_components: the first archetype the source's
\* filter matches, else a new one.
get_entity_type_for_components(w, src) ==
    Let({i \in 1..Len(w.entity_types) :
            matches_layout(src, w.entity_types[i].layout.components)},
        LAMBDA found :
          IF found # {}
          THEN [w |-> w,
                index |-> w.entity_types[
                              CHOOSE i \in found : \A j \in found : i <= j].index]
          ELSE World_insert_entity_type(w, layout(src)))

\* MultiViewMut::claim behind EntityTypeWriter::claim_components: Some when
\* the component map has a storage of the type (the unwrap then succeeds).
claim(comps, T) == ComponentTypeIndex_of(T) \in DOMAIN comps

\* MultiViewMut::new: a view of the component map with nothing claimed.
MultiViewMut_new == [claimed |-> {}]

\* MultiViewMut::claim::<T>: T's id is inserted into the claimed set,
\* whatever the set holds, and the storage of T is returned when the
\* component map has one.
MultiViewMut_claim(view, comps, T) ==
    [view |-> [view EXCEPT !.claimed = @ \cup {ComponentTypeIndex_of(T)}],
     some |-> contains_component_id(comps, ComponentTypeIndex_of(T))]

\* EntityTypeWriter::new
EntityTypeWriter_new(entity_type_index, entity_type, view) ==
    [entity_type_index |-> entity_type_index,
     components        |-> view,
     claimed           |-> 0,
     initial_count     |-> Len(entity_type.entities)]

\* EntityTypeWriter::claim_components::<T>: self.components.claim::<T>()
\* unwrapped, so ok = FALSE (a panic) when the map has no storage of T.
claim_components(w, comps, T) ==
    Let(MultiViewMut_claim(w.components, comps, T), LAMBDA c :
        [ok |-> c.some, writer |-> [w EXCEPT !.components = c.view]])

\* EntityTypeWriter::push on the archetype the writer borrows, which is
\* entity_types[entity_type_index].
EntityTypeWriter_push(w, types, entity) ==
    [types EXCEPT ![w.entity_type_index + 1] = EntityType_push(@, entity)]

\* An inserted that returns the whole entity list of the archetype.
inserted_all(w, types) ==
    [base  |-> 0, slice |-> At(types, w.entity_type_index).entities]

\* EntityTypeWriter::inserted: the row initial_count and the entities of
\* the archetype from that row on.
inserted(w, types) ==
    [base  |-> w.initial_count,
     slice |-> SubSeq(At(types, w.entity_type_index).entities,
                      w.initial_count + 1,
                      Len(At(types, w.entity_type_index).entities))]

\* No write session: no MultiViewMut and no EntityTypeWriter is alive.
NoWriter == <<>>

\* ComponentWriter::extend_memcopy on the claimed storage of T.
ComponentWriter_extend_memcopy(comps, T, entity_type, values) ==
    Let(extend_memcopy_raw(comps[ComponentTypeIndex_of(T)], entity_type, values),
        LAMBDA r :
          [ok |-> r.ok,
           components |-> [comps EXCEPT ![ComponentTypeIndex_of(T)] = r.storage]])

\* ComponentSource::push_components for Option<SingleEntity<(T1, T2)>> on a
\* writer bound to archetype entity_type: take one handle, push it onto the
\* archetype, claim both writers, append one value to each.
push_components(w, entity_type, src) ==
    IF ~src.some
    THEN [ok |-> TRUE, w |-> w]
    ELSE
    Let(EntityAllocator_next(w.entity_allocator), LAMBDA a :
    Let([w EXCEPT !.entity_allocator = a.allocator,
                  !.entity_types[entity_type + 1].entities = Append(@, a.entity)],
        LAMBDA w1 :
        IF ~(claim(w1.components, src.t1) /\ claim(w1.components, src.t2))
        THEN [ok |-> FALSE, w |-> w1]
        ELSE
        Let(ComponentWriter_extend_memcopy(
                w1.components, src.t1, entity_type, <<src.v1>>),
            LAMBDA x1 :
            IF ~x1.ok
            THEN [ok |-> FALSE, w |-> w1]
            ELSE
            Let(ComponentWriter_extend_memcopy(
                    x1.components, src.t2, entity_type, <<src.v2>>),
                LAMBDA x2 :
                  [ok |-> x2.ok,
                   w  |-> [w1 EXCEPT !.components = x2.components]]))))

\* The loop of World::remove_at_location over the layout's component types:
\* components.get_mut(type).unwrap().swap_remove(archetype, row).
RECURSIVE swap_remove_all(_, _, _, _)
swap_remove_all(comps, types, entity_type, row) ==
    IF types = <<>>
    THEN [ok |-> TRUE, components |-> comps]
    ELSE IF Head(types) \notin DOMAIN comps
    THEN [ok |-> FALSE, components |-> comps]
    ELSE Let(swap_remove_internal(comps[Head(types)], entity_type, row),
             LAMBDA r :
               IF ~r.ok
               THEN [ok |-> FALSE, components |-> comps]
               ELSE swap_remove_all([comps EXCEPT ![Head(types)] = r.storage],
                                    Tail(types), entity_type, row))

\* World::remove_at_location: swap-remove the row from the archetype's
\* entity list and from each storage of its layout, then point the entity
\* that moved into the row at it.
remove_at_location(w, location) ==
    IF ~InBounds(w.entity_types, location.type_id)
    THEN [ok |-> FALSE, w |-> w]
    ELSE IF ~InBounds(At(w.entity_types, location.type_id).entities,
                      location.component_id)
    THEN [ok |-> FALSE, w |-> w]
    ELSE
    Let(EntityType_swap_remove(At(w.entity_types, location.type_id),
                               location.component_id),
        LAMBDA entity_type :
    Let(swap_remove_all(w.components, entity_type.layout.components,
                        location.type_id, location.component_id),
        LAMBDA r :
    Let([w EXCEPT !.entity_types[location.type_id + 1] = entity_type,
                  !.components = r.components],
        LAMBDA w2 :
          IF ~r.ok
          THEN [ok |-> FALSE, w |-> w2]
          ELSE IF contains_component_value(entity_type, location.component_id)
          THEN [ok |-> TRUE,
                w  |-> [w2 EXCEPT !.entities =
                          EntityLocationMap_set(
                              @, At(entity_type.entities, location.component_id),
                              location)]]
          ELSE [ok |-> TRUE, w |-> w2])))

\* The loop of World::extend_out over the replaced locations.
RECURSIVE remove_replaced(_, _)
remove_replaced(w, replaced) ==
    IF replaced = <<>>
    THEN [ok |-> TRUE, w |-> w]
    ELSE Let(remove_at_location(w, Head(replaced)), LAMBDA r :
             IF ~r.ok THEN r ELSE remove_replaced(r.w, Tail(replaced)))

\* World::extend_out: resolve the archetype, let the source write through a
\* writer, record the new entities in the location map, remove what they
\* replaced.  out is what the call hands to its `out` argument.
extend_out(w, src) ==
    Let(get_entity_type_for_components(w, src), LAMBDA t :
    Let(Len(At(t.w.entity_types, t.index).entities), LAMBDA initial_count :
    Let(push_components(t.w, t.index, src), LAMBDA p :
        IF ~p.ok
        THEN [ok |-> FALSE, w |-> p.w, out |-> <<>>]
        ELSE
        Let(SubSeq(At(p.w.entity_types, t.index).entities, initial_count + 1,
                   Len(At(p.w.entity_types, t.index).entities)),
            LAMBDA new_entities :
        Let(EntityLocationMap_insert(p.w.entities, new_entities,
                                     t.index, initial_count),
            LAMBDA i :
            IF ~i.ok
            THEN [ok |-> FALSE, w |-> p.w, out |-> <<>>]
            ELSE
            Let(remove_replaced([p.w EXCEPT !.entities = i.locations],
                                i.replaced),
                LAMBDA r : [ok |-> r.ok, w |-> r.w, out |-> new_entities]))))))

\* A remove that does not test the lookup and takes the default location
\* (archetype 0, row 0) for an entity the map does not hold.
remove_unchecked(w, entity) ==
    Let(remove_at_location(
            [w EXCEPT !.entities = EntityLocationMap_remove(@, entity)],
            IF entity \in DOMAIN w.entities
            THEN w.entities[entity] ELSE EntityLocation(0, 0)),
        LAMBDA r : [ok |-> r.ok, w |-> r.w, ret |-> TRUE])

\* World::remove: drop the entity's location and remove its row; false for
\* an entity the location map does not hold.
remove(w, entity) ==
    IF entity \in DOMAIN w.entities
    THEN Let(remove_at_location(
                 [w EXCEPT !.entities = EntityLocationMap_remove(@, entity)],
                 w.entities[entity]),
             LAMBDA r : [ok |-> r.ok, w |-> r.w, ret |-> TRUE])
    ELSE [ok |-> TRUE, w |-> w, ret |-> FALSE]

\* A clear that also empties the entity list of every archetype.
RECURSIVE clear_truncating(_, _)
clear_truncating(w, keys) ==
    IF keys = <<>>
    THEN [ok |-> TRUE,
          w  |-> [w EXCEPT !.entity_types =
                     [i \in DOMAIN @ |-> [@[i] EXCEPT !.entities = <<>>]]]]
    ELSE Let(remove(w, Head(keys)), LAMBDA r :
             IF ~r.ok
             THEN [ok |-> FALSE, w |-> r.w]
             ELSE clear_truncating(r.w, Tail(keys)))

\* World::clear: remove every key of the location map, in the order the
\* snapshot of the keys lists them.
RECURSIVE clear(_, _)
clear(w, keys) ==
    IF keys = <<>>
    THEN [ok |-> TRUE, w |-> w]
    ELSE Let(remove(w, Head(keys)), LAMBDA r :
             IF ~r.ok
             THEN [ok |-> FALSE, w |-> r.w]
             ELSE clear(r.w, Tail(keys)))

\* The orders in which a HashMap may list the keys S.
KeyOrders(S) ==
    {s \in [1..Cardinality(S) -> S] : \A i, j \in DOMAIN s : i # j => s[i] # s[j]}

----------------------------------------------------------------------------
\* The world as a state machine: one action per public operation.

\* The world value the variables hold.
World ==
    [entities         |-> entities,
     entity_types     |-> entity_types,
     entity_allocator |-> entity_allocator,
     components       |-> components]

\* The record of a call: the operation, the entity passed (remove), the
\* entity returned (push), the boolean returned (remove), whether the call
\* panicked, len() before the call, and the component types of the source
\* passed (push, extend), in the order of the pair.
Call(op, arg, returned, ret, panicked, len0, types) ==
    [op |-> op, arg |-> arg, returned |-> returned, ret |-> ret,
     panicked |-> panicked, len0 |-> len0, types |-> types]

\* The component types of a source, in the order of its pair; none for None.
TypesOf(src) == IF src.some THEN <<src.t1, src.t2>> ELSE <<>>

Init ==
    /\ entities = World_new.entities
    /\ entity_types = World_new.entity_types
    /\ entity_allocator = World_new.entity_allocator
    /\ components = World_new.components
    /\ allocation_buffer = <<>>
    /\ writer = NoWriter
    /\ last = Call("new", {}, {}, FALSE, FALSE, 0, <<>>)

\* The variables take the fields of the world value w.
Becomes(w) ==
    /\ entities' = w.entities
    /\ entity_types' = w.entity_types
    /\ entity_allocator' = w.entity_allocator
    /\ components' = w.components

\* Whether a call with this source stays within the bounds of the model.
WithinBounds(src) ==
    /\ src.some => entity_allocator.max_id < MaxEntities
    /\ (\A i \in 1..Len(entity_types) :
            ~matches_layout(src, entity_types[i].layout.components))
       => Len(entity_types) < MaxEntityTypes

\* The variables after a call that left the world r.w.
Done(r, buffer, call) ==
    /\ Becomes(r.w)
    /\ allocation_buffer' = buffer
    /\ writer' = writer
    /\ last' = call

\* World::push(components): extend_out(Some(components), Single), then the
\* one entity it handed out.
Push(src) ==
    /\ WithinBounds(src)
    /\ Let(extend_out(World, src), LAMBDA r :
           Done(r, allocation_buffer,
                Call("push", {},
                     IF r.ok /\ r.out # <<>> THEN {r.out[1]} ELSE {},
                     FALSE, ~(r.ok /\ r.out # <<>>), len(World),
                     TypesOf(src))))

\* World::extend(components): the allocation buffer is taken and cleared,
\* extend_out fills it, and it is put back when extend_out returns.
Extend(src) ==
    /\ WithinBounds(src)
    /\ Let(extend_out(World, src), LAMBDA r :
           Done(r, IF r.ok THEN r.out ELSE <<>>,
                Call("extend", {}, {}, FALSE, ~r.ok, len(World),
                     TypesOf(src))))

\* World::remove(entity)
Remove(entity) ==
    /\ entity \in EntityIds
    /\ Let(remove(World, entity), LAMBDA r :
           Done(r, allocation_buffer,
                Call("remove", {entity}, {}, r.ret, ~r.ok, len(World),
                     <<>>)))

\* World::clear(): the keys are snapshot in some order and removed.
Clear ==
    \E keys \in KeyOrders(DOMAIN entities) :
        Let(clear(World, keys), LAMBDA r :
            Done(r, allocation_buffer,
                 Call("clear", {}, {}, FALSE, ~r.ok, len(World), <<>>)))

Next ==
    \/ \E src \in PairSources : Push(src)
    \/ \E src \in PairSources \cup {NoneSource} : Extend(src)
    \/ \E entity \in EntityIds : Remove(entity)
    \/ Clear

Spec == Init /\ [][Next]_vars

----------------------------------------------------------------------------
\* Observations used by the properties below.

\* The archetypes of the world, by position in the archetype vector.
Archetypes == 1..Len(entity_types)

\* The unordered set of component types of the archetype at position i.
TypeSet(i) == Range(entity_types[i].layout.components)

\* The sum over all archetypes of the length of the entity list.
RECURSIVE SumEntityCounts(_)
SumEntityCounts(types) ==
    IF types = <<>> THEN 0
    ELSE Len(Head(types).entities) + SumEntityCounts(Tail(types))

\* Component type t has an array registered for archetype id a in its
\* storage, and that array holds n values.
ArrayRegisteredWithLength(t, a, n) ==
    /\ t \in DOMAIN components
    /\ InBounds(components[t].indices, a)
    /\ InBounds(components[t].components, At(components[t].indices, a))
    /\ At(components[t].components, At(components[t].indices, a)).length = n

\* Every array of every storage is empty.
AllArraysEmpty ==
    \A t \in DOMAIN components :
        \A k \in 1..Len(components[t].components) :
            components[t].components[k].length = 0

\* The location map, the archetypes and the storages are as before the step.
DataUnchanged ==
    /\ entities' = entities
    /\ entity_types' = entity_types
    /\ components' = components

----------------------------------------------------------------------------
\* Properties of the world.

\* C2: for every archetype a and every component type t of a's layout, the
\* storage of t has an array registered for a, and that array is as long as
\* a's entity list.
C2_LayoutStoragesRegistered ==
    \A i \in Archetypes :
        \A t \in Range(entity_types[i].layout.components) :
            ArrayRegisteredWithLength(t, entity_types[i].index,
                                      Len(entity_types[i].entities))

\* C4: a push completes without failing, returns an entity the world then
\* contains, and raises len() by exactly one.
C4_PushSucceeds ==
    last.op = "push" =>
        /\ ~last.panicked
        /\ last.returned # {}
        /\ \A e \in last.returned : contains(World, e)
        /\ len(World) = last.len0 + 1

\* C6: len() is the sum over all archetypes of the length of the entity
\* list, is_empty() holds exactly when len() = 0, and a new world has length
\* 0 and is empty.
C6_LenIsSumOfArchetypes ==
    /\ len(World) = SumEntityCounts(entity_types)
    /\ is_empty(World) <=> len(World) = 0
    /\ last.op = "new" => (len(World) = 0 /\ is_empty(World))

\* C8: remove of an entity that has no entry in the location map returns
\* false and leaves the location map, every archetype's entity list and
\* every storage array as they were.
C8_RemoveUnknownChangesNothing ==
    [][(last'.op = "remove" /\ \A e \in last'.arg : ~contains(World, e))
         => (~last'.ret /\ ~last'.panicked /\ DataUnchanged)]_vars

\* C8 happens: a remove returned false for an entity the location map does
\* not hold, while an archetype lists that very entity.
C8_Witness ==
    /\ last.op = "remove"
    /\ ~last.ret
    /\ \E e \in last.arg :
          /\ ~contains(World, e)
          /\ \E i \in Archetypes : e \in Range(entity_types[i].entities)

\* C9: after clear the world is empty, len() is 0, and every archetype's
\* entity list and every storage array is empty.
C9_ClearEmptiesEverything ==
    last.op = "clear" =>
        /\ is_empty(World)
        /\ len(World) = 0
        /\ \A i \in Archetypes : entity_types[i].entities = <<>>
        /\ AllArraysEmpty

\* C10: clear on a world with no live entities changes neither the location
\* map nor the archetypes nor the storages; so a clear right after a clear
\* changes nothing.
C10_ClearOnEmptyChangesNothing ==
    [][(last'.op = "clear" /\ (is_empty(World) \/ last.op = "clear"))
         => (~last'.panicked /\ DataUnchanged)]_vars

\* C10 happens: a clear ran on a world with no live entities that holds
\* archetypes with entities listed and storages.
C10_Witness ==
    /\ last.op = "clear"
    /\ is_empty(World)
    /\ DOMAIN components # {}
    /\ \E i \in Archetypes : entity_types[i].entities # <<>>

\* C11: no two archetypes of the world have the same unordered set of
\* component types, whatever sequence of push and extend calls ran, an
\* extend with the source None included.
C11_NoTwoArchetypesShareTypeSet ==
    \A i, j \in Archetypes : i # j => TypeSet(i) # TypeSet(j)

\* C12: a push of a pair whose set of types some archetype already has
\* creates no archetype and puts the new entity into that archetype, in
\* whichever order the pair names the two types.
C12_PushReusesArchetype ==
    [][(last'.op = "push"
        /\ \E i \in Archetypes : TypeSet(i) = Range(last'.types))
         => /\ Len(entity_types') = Len(entity_types)
            /\ \E i \in Archetypes :
                  /\ TypeSet(i) = Range(last'.types)
                  /\ Len(entity_types'[i].entities)
                         = Len(entity_types[i].entities) + 1]_vars

\* C12 happens: a push of (Velocity, Position) put its entity into the one
\* archetype, which a source (Position, Velocity) created.
C12_Witness ==
    /\ last.op = "push"
    /\ last.types = <<"Velocity", "Position">>
    /\ Len(entity_types) = 1
    /\ entity_types[1].layout.components = <<"Position", "Velocity">>
    /\ Len(entity_types[1].entities) = 2

----------------------------------------------------------------------------
\* The layout filter alone: a pair filter applied to a candidate component
\* list, as World::get_entity_type_for_components applies it to the layout
\* of an archetype.

\* The longest candidate component list.
MaxLayoutLen == 3

\* Component lists of length n.
RECURSIVE ListsOfLen(_)
ListsOfLen(n) ==
    IF n = 0 THEN {<<>>}
    ELSE {Append(c, t) : c \in ListsOfLen(n - 1), t \in ComponentTypes}

\* The candidate component lists.
CandidateLists == UNION {ListsOfLen(n) : n \in 0..MaxLayoutLen}

\* One archetype whose layout lists the candidate component types.
FilterInit ==
    /\ \E c \in CandidateLists :
          entity_types =
              <<EntityType_new(0, [components |-> c, constructors |-> c])>>
    /\ entities = World_new.entities
    /\ entity_allocator = World_new.entity_allocator
    /\ components = World_new.components
    /\ allocation_buffer = <<>>
    /\ writer = NoWriter
    /\ last = Call("new", {}, {}, FALSE, FALSE, 0, <<>>)

\* components.filter().matches_layout(entity_type.layout().component_types())
\* for a source of a pair: last.ret is what the filter answered.
MatchesLayout(src) ==
    /\ src \in PairSources
    /\ last' = Call("matches_layout", {}, {},
                    matches_layout(src, entity_types[1].layout.components),
                    FALSE, 0, TypesOf(src))
    /\ UNCHANGED <<entities, entity_types, entity_allocator, components,
                   allocation_buffer, writer>>

FilterNext == \E src \in PairSources : MatchesLayout(src)

SpecFilter == FilterInit /\ [][FilterNext]_vars

\* C13: the filter of a source (T1, T2), T1 = T2 included, matches a
\* candidate component list exactly when the set of types of the list is
\* the set {T1, T2}.
C13_FilterMatchesEqualTypeSet ==
    last.op = "matches_layout" =>
        (last.ret <=> TypeSet(1) = Range(last.types))

----------------------------------------------------------------------------
\* Properties of the world, continued.

\* C16: contains_component::<T>() is true exactly when some push or extend
\* so far used a source whose layout contains T: it is false in a new world,
\* a call makes it true exactly for the types of the source it was given,
\* and no call (remove and clear included) makes it false again.
C16_ContainsComponentIffTypeUsed ==
    /\ \A T \in ComponentTypes : ~contains_component(World, T)
    /\ [][\A T \in ComponentTypes :
            contains_component(World, T)' <=>
                \/ contains_component(World, T)
                \/ /\ last'.op \in {"push", "extend"}
                   /\ ComponentTypeIndex_of(T) \in Range(last'.types)]_vars

\* C16 happens: after a clear the world holds the storages of Position and
\* Velocity, which a source used, and none of Acceleration.
C16_Witness ==
    /\ last.op = "clear"
    /\ contains_component(World, "Position")
    /\ contains_component(World, "Velocity")
    /\ ~contains_component(World, "Acceleration")

----------------------------------------------------------------------------
\* The entity allocator alone (entity.rs), driven as its unit test drives
\* it: the variable entity_allocator holds the allocator, the other fields
\* of the world stay those of a new world.

\* The longest free queue.
MaxFree == 3

\* The variables the allocator calls leave alone.
AllocatorFrame ==
    UNCHANGED <<entities, entity_types, components, allocation_buffer, writer>>

\* allocator.allocate(): last.returned holds the handle returned.
Allocate ==
    /\ entity_allocator.available_entities # <<>>
          \/ entity_allocator.max_id < MaxEntities
    /\ Let(allocate(entity_allocator), LAMBDA r :
           /\ entity_allocator' = r.allocator
           /\ last' = Call("allocate", {}, {r.entity}, FALSE, FALSE, 0, <<>>))
    /\ AllocatorFrame

\* allocator.deallocate(entity): last.arg holds the handle passed.
Deallocate(entity) ==
    /\ Len(entity_allocator.available_entities) < MaxFree
    /\ entity_allocator' = deallocate(entity_allocator, entity)
    /\ last' = Call("deallocate", {entity}, {}, FALSE, FALSE, 0, <<>>)
    /\ AllocatorFrame

\* test_allocate_deallocate_from_empty_allocator's three calls in a row, from
\* any allocator: let a = allocate(); deallocate(a); allocate().  last.arg
\* holds a and last.returned the handle the second allocate returned.
AllocateDeallocateAllocate ==
    /\ entity_allocator.available_entities # <<>>
          \/ entity_allocator.max_id < MaxEntities
    /\ Let(allocate(entity_allocator), LAMBDA expected :
       Let(allocate(deallocate(expected.allocator, expected.entity)),
           LAMBDA result :
           /\ entity_allocator' = result.allocator
           /\ last' = Call("allocate_deallocate_allocate", {expected.entity},
                           {result.entity}, FALSE, FALSE, 0, <<>>)))
    /\ AllocatorFrame

AllocatorNext ==
    \/ Allocate
    \/ \E entity \in EntityIds : Deallocate(entity)
    \/ AllocateDeallocateAllocate

SpecAllocator == Init /\ [][AllocatorNext]_vars

\* What allocate does to the allocator in a step that returns `returned`:
\* with a non-empty free queue the oldest handle of the queue is returned and
\* leaves the queue; with an empty one the handle max_id is returned and
\* max_id grows by one.
AllocateStep(returned) ==
    IF entity_allocator.available_entities # <<>>
    THEN /\ returned = {Head(entity_allocator.available_entities)}
         /\ entity_allocator'.available_entities =
                Tail(entity_allocator.available_entities)
         /\ entity_allocator'.max_id = entity_allocator.max_id
    ELSE /\ returned = {entity_allocator.max_id}
         /\ entity_allocator'.max_id = entity_allocator.max_id + 1
         /\ entity_allocator'.available_entities = <<>>

C18_DeallocateValidates ==
    [][last'.op = "deallocate" =>
         \A e \in last'.arg :
            IF e >= entity_allocator.max_id
            THEN entity_allocator' = entity_allocator
            ELSE /\ entity_allocator'.available_entities =
                        Append(entity_allocator.available_entities, e)
                 /\ entity_allocator'.max_id = entity_allocator.max_id]_vars

\* C18 happens: a handle that was never minted was deallocated on an
\* allocator that has minted handles and holds freed ones.
C18_Witness ==
    /\ last.op = "deallocate"
    /\ \E e \in last.arg : e >= entity_allocator.max_id
    /\ entity_allocator.max_id > 0
    /\ entity_allocator.available_entities # <<>>

\* C38: over every sequence of allocate and deallocate calls the free queue
\* never holds the same handle twice, and the handle an allocate returns is
\* not left in the free queue (a handle that is both handed out and free
\* would be handed out again while it is allocated).
C38_NoHandleAllocatedTwice ==
    /\ [](\A i, j \in DOMAIN entity_allocator.available_entities :
             i # j => entity_allocator.available_entities[i] #
                          entity_allocator.available_entities[j])
    /\ [][last'.op = "allocate" =>
             \A e \in last'.returned :
                \A i \in DOMAIN entity_allocator'.available_entities :
                   entity_allocator'.available_entities[i] # e]_vars

----------------------------------------------------------------------------
\* One typed storage alone (compactable.rs), driven as its unit tests drive
\* it: the component map holds the storage of one component type, on which
\* archetypes are registered, values appended and rows removed.

\* The component type of the storage of the unit tests.
StoredType == "usize"

\* The archetype ids the unit tests register.
StorageEntityTypes == {0, 1}

\* The most values the storage holds.
MaxArrayLen == 5

\* CompactableStorage::<usize>::default()
StorageInit ==
    /\ components = [t \in {StoredType} |-> CompactableStorage_default]
    /\ entities = World_new.entities
    /\ entity_types = World_new.entity_types
    /\ entity_allocator = World_new.entity_allocator
    /\ allocation_buffer = <<>>
    /\ writer = NoWriter
    /\ last = Call("new", {}, {}, FALSE, FALSE, 0, <<>>)

\* The variables the storage calls leave alone.
StorageFrame ==
    UNCHANGED <<entities, entity_types, entity_allocator, allocation_buffer,
                writer>>

\* The storage has an array registered for archetype a.
Registered(s, a) ==
    InBounds(s.indices, a) /\ InBounds(s.components, At(s.indices, a))

\* ComponentStorage::get(a).into_slice(): the values of archetype a's
\* array, nothing for an archetype without one.
Slice(s, a) ==
    IF Registered(s, a) THEN At(s.components, At(s.indices, a)).data ELSE <<>>

\* storage.insert_entity_type(EntityTypeIndex::new(a)), once: the storage
\* holds the array of one archetype, as in the swap_remove unit tests.
InsertEntityType(a) ==
    /\ components[StoredType].views = <<>>
    /\ components' =
          [components EXCEPT ![StoredType] =
              CompactableStorage_insert_entity_type(@, a)]
    /\ last' = Call("insert_entity_type", {}, {}, FALSE, FALSE, 0, <<>>)
    /\ StorageFrame

\* storage.extend_memcopy(EntityTypeIndex::new(a), ptr, count) with the
\* values n + 1 .. n + count, n the length of the array: vec![1, 2, 3, 4, 5]
\* on an empty array.
ExtendMemcopy(a, count) ==
    /\ components[StoredType].length + count <= MaxArrayLen
    /\ Let(extend_memcopy_raw(
               components[StoredType], a,
               [i \in 1..count |->
                   Len(Slice(components[StoredType], a)) + i]),
           LAMBDA r :
             /\ components' = [components EXCEPT ![StoredType] = r.storage]
             /\ last' = Call("extend_memcopy", {}, {}, FALSE, ~r.ok, 0, <<>>))
    /\ StorageFrame

\* storage.swap_remove(EntityTypeIndex::new(a), ComponentIndex::new(row)):
\* last.arg holds the row and last.returned the value swap_remove_internal
\* returned.
SwapRemove(a, row) ==
    /\ row \in 0..(MaxArrayLen - 1)
    /\ Let(swap_remove_internal(components[StoredType], a, row), LAMBDA r :
             /\ components' = [components EXCEPT ![StoredType] = r.storage]
             /\ last' = Call("swap_remove", {row},
                             IF r.ok THEN {r.value} ELSE {},
                             FALSE, ~r.ok, 0, <<>>))
    /\ StorageFrame

StorageNext ==
    \/ \E a \in StorageEntityTypes : InsertEntityType(a)
    \/ \E a \in StorageEntityTypes : \E count \in 1..MaxArrayLen :
          ExtendMemcopy(a, count)
    \/ \E a \in StorageEntityTypes : \E row \in 0..(MaxArrayLen - 1) :
          SwapRemove(a, row)

SpecStorage == StorageInit /\ [][StorageNext]_vars

\* C20: swap_remove(a, row) on an array of n values with row < n leaves an
\* array of n - 1 values in which position row holds the former last value
\* when row < n - 1 and every other position below n - 1 holds what it held;
\* the value removed is the one that was at row.
C20_SwapRemoveMovesLast ==
    [][\A a \in StorageEntityTypes : \A row \in last'.arg :
         (/\ last'.op = "swap_remove"
          /\ SwapRemove(a, row)
          /\ Registered(components[StoredType], a)
          /\ row < Len(Slice(components[StoredType], a)))
         => LET before == Slice(components[StoredType], a)
                after  == Slice(components'[StoredType], a)
                n      == Len(before)
            IN  /\ ~last'.panicked
                /\ Len(after) = n - 1
                /\ \A i \in 0..(n - 2) :
                      At(after, i) = IF i = row THEN At(before, n - 1)
                                     ELSE At(before, i)
                /\ last'.returned = {At(before, row)}]_vars

\* C20 happens: swap_remove of row 2 of [1, 2, 3, 4, 5] removed 3 and left
\* [1, 2, 5, 4].
C20_Witness ==
    /\ last.op = "swap_remove"
    /\ last.arg = {2}
    /\ last.returned = {3}
    /\ StoredType \in DOMAIN components
    /\ Slice(components[StoredType], 0) = <<1, 2, 5, 4>>

----------------------------------------------------------------------------
\* The typed storages of compactable.rs under all their operations: either
\* the storage of the unit tests alone, with two archetypes to move values
\* between, or the storage of a zero-sized type alone, or the storage of the
\* unit tests and a peer that is the dst_storage of the
\* transfers, with one archetype each.  The peer holds either the same
\* component type or another one.  The variable components holds the
\* storages by name.  The calls name archetypes the storage has an array of
\* and rows its array has (anything else is a programming error of the
\* caller), and a call that panics ends the run, as it ends a unit test.

\* The peer storages: one of the component type of StoredType, one of
\* another type.
PeerStorages == {"usize (peer)", "f32 (peer)"}

\* The storage of a zero-sized component type, CompactableStorage<()>.
ZeroSizedType == "()"

\* The component type a storage holds.
ElementType(k) ==
    IF k = "f32 (peer)" THEN "f32"
    ELSE IF k = ZeroSizedType THEN "()" ELSE "usize"

\* The most component values the storages hold together.
MaxStored == 2

\* The values stored in the arrays of a storage.
RECURSIVE ValuesIn(_)
ValuesIn(arrays) ==
    IF arrays = <<>> THEN {}
    ELSE Range(Head(arrays).data) \cup ValuesIn(Tail(arrays))

\* The values stored in any storage.
StoredValues ==
    UNION {ValuesIn(components[k].components) : k \in DOMAIN components}

\* The values an append copies: count values that are stored nowhere yet,
\* so that every value can be told from the others.
RECURSIVE NextValues(_, _)
NextValues(stored, count) ==
    IF count = 0 THEN <<>>
    ELSE Let(CHOOSE v \in 1..(Cardinality(stored) + 1) : v \notin stored,
             LAMBDA v : <<v>> \o NextValues(stored \cup {v}, count - 1))

\* What the bytes of a usize value read as when taken for an f32.
ReinterpretedValues == {0, 1}

\* The number of component values in the arrays of storage s.
RECURSIVE SumArrayLengths(_)
SumArrayLengths(arrays) ==
    IF arrays = <<>> THEN 0
    ELSE Head(arrays).length + SumArrayLengths(Tail(arrays))

\* The number of component values in the arrays of the storages named.
RECURSIVE SumStored(_)
SumStored(names) ==
    IF names = {} THEN 0
    ELSE Let(CHOOSE k \in names : TRUE, LAMBDA k :
             SumArrayLengths(components[k].components)
               + SumStored(names \ {k}))

\* The record of a storage call: the operation and whether it panicked.
StorageCall(op, panicked) == [op |-> op, panicked |-> panicked]

\* No call yet.
NoStorageCall == StorageCall("new", FALSE)

TransferInit ==
    /\ \E names \in {{StoredType}, {ZeroSizedType}}
                       \cup {{StoredType, p} : p \in PeerStorages} :
          components = [k \in names |-> CompactableStorage_default]
    /\ entities = World_new.entities
    /\ entity_types = World_new.entity_types
    /\ entity_allocator = World_new.entity_allocator
    /\ allocation_buffer = <<>>
    /\ writer = NoWriter
    /\ last = NoStorageCall

\* The variables after a call on storage k that left it as s.
StorageDone(k, s, call) ==
    /\ components' = [components EXCEPT ![k] = s]
    /\ last' = call
    /\ StorageFrame

\* The variables after a call on storage k with destination storage dk.
TransferDone(k, dk, r, call) ==
    /\ components' = [components EXCEPT ![k] = r.storage,
                                        ![dk] = r.dst_storage]
    /\ last' = call
    /\ StorageFrame

\* components[k].insert_entity_type(a), for an archetype the storage has no
\* array of (a second registration is a programming error of the caller),
\* and before any value is stored, as the unit tests register.
PeerInsertEntityType(k, a) ==
    /\ ~last.panicked
    /\ ~get(components[k], a).some
    /\ \A p \in DOMAIN components : components[p].length = 0
    /\ StorageDone(k,
           IF ElementType(k) = "()"
           THEN CompactableStorage_insert_entity_type_zero_sized(components[k], a)
           ELSE CompactableStorage_insert_entity_type(components[k], a),
           StorageCall("insert_entity_type", FALSE))

\* The storage has an array of archetype a with a row `row`.
HasRow(s, a, row) == get(s, a).some /\ row < Len(get(s, a).slice)

\* components[k].extend_memcopy(a, ptr, count)
PeerExtendMemcopy(k, a, count) ==
    /\ ~last.panicked
    /\ get(components[k], a).some
    /\ SumStored(DOMAIN components) + count <= MaxStored
    /\ Let(extend_memcopy_raw(components[k], a,
                              NextValues(StoredValues, count)),
           LAMBDA r :
             StorageDone(k, r.storage,
                 StorageCall("extend_memcopy", ~r.ok)))

\* components[k].swap_remove(a, row)
PeerSwapRemove(k, a, row) ==
    /\ ~last.panicked
    /\ HasRow(components[k], a, row)
    /\ Let(swap_remove_internal(components[k], a, row), LAMBDA r :
           StorageDone(k, r.storage,
               StorageCall("swap_remove", ~r.ok)))

\* components[k].move_component(src, row, dst)
MoveComponent(k, src, row, dst) ==
    /\ ~last.panicked
    /\ HasRow(components[k], src, row)
    /\ get(components[k], dst).some
    /\ Let(move_component(components[k], src, row, dst), LAMBDA r :
           StorageDone(k, r.storage,
               StorageCall("move_component", ~r.ok)))

\* components[k].transfer_component(src, row, dst, &mut components[dk]): a
\* destination of another component type reads the bytes of the value as
\* some value of its own type.
TransferComponent(k, src, row, dst, dk) ==
    /\ ~last.panicked
    /\ dk # k
    /\ HasRow(components[k], src, row)
    /\ get(components[dk], dst).some
    /\ \E g \in ReinterpretedValues :
          Let(transfer_component(
                  components[k], src, row, dst, components[dk],
                  ElementType(dk) = ElementType(k), g),
              LAMBDA r :
                TransferDone(k, dk, r,
                    StorageCall("transfer_component", ~r.ok)))

\* components[k].transfer_entity_type(src, dst, &mut components[dk]), while
\* the length the destination storage records is within the bound.
TransferEntityType(k, src, dst, dk) ==
    /\ ~last.panicked
    /\ dk # k
    /\ get(components[k], src).some
    /\ get(components[dk], dst).some
    /\ components[dk].length + Len(get(components[k], src).slice) <= MaxStored
    /\ Let(transfer_entity_type(components[k], src, dst, components[dk],
                                ElementType(dk) = ElementType(k)),
           LAMBDA r :
             TransferDone(k, dk, r,
                 StorageCall("transfer_entity_type", ~r.ok)))

\* The archetypes a storage is asked for: two when it is alone, one when it
\* has a peer.
EntityTypesOf(k) ==
    IF DOMAIN components = {StoredType} THEN StorageEntityTypes ELSE {0}

\* The rows a call may name.
StoredRows == 0..(MaxStored - 1)

TransferNext ==
    \/ \E k \in DOMAIN components : \E a \in EntityTypesOf(k) :
          PeerInsertEntityType(k, a)
    \/ \E k \in DOMAIN components : \E a \in EntityTypesOf(k) :
       \E count \in 0..MaxStored : PeerExtendMemcopy(k, a, count)
    \/ \E k \in DOMAIN components : \E a \in EntityTypesOf(k) :
       \E row \in StoredRows : PeerSwapRemove(k, a, row)
    \/ \E k \in DOMAIN components : \E a, dst \in EntityTypesOf(k) :
       \E row \in StoredRows : MoveComponent(k, a, row, dst)
    \/ \E k, dk \in DOMAIN components :
       \E a \in EntityTypesOf(k) : \E dst \in EntityTypesOf(dk) :
       \E row \in StoredRows : TransferComponent(k, a, row, dst, dk)
    \/ \E k, dk \in DOMAIN components :
       \E a \in EntityTypesOf(k) : \E dst \in EntityTypesOf(dk) :
          TransferEntityType(k, a, dst, dk)

SpecTransfer == TransferInit /\ [][TransferNext]_vars

----------------------------------------------------------------------------
\* C22: after any sequence of insert_entity_type, extend_memcopy,
\* swap_remove, move_component, transfer_component and transfer_entity_type
\* that completed, the length field of each storage equals the sum of the
\* lengths of its per-archetype arrays.
C22_TotalLenIsSumOfArrays ==
    ~last.panicked =>
        \A k \in DOMAIN components :
            components[k].length = SumArrayLengths(components[k].components)

QueriedEntityTypes == StorageEntityTypes \cup {Cardinality(StorageEntityTypes)}

\* C24: get(a) (and get_mut(a)) of a storage returns a view exactly when
\* insert_entity_type(a) has been called on it: none on a new storage, and
\* from then on one for a exactly when there was one before or the step is
\* insert_entity_type(a) on this storage (a call that panics apart, which
\* ends the run), also for an archetype below a
\* registered one (its index entry is usize::MAX) and for one past the end
\* of the index table; right after insert_entity_type(a) the view is empty.
C24_GetIffInserted ==
    /\ \A k \in DOMAIN components : \A a \in QueriedEntityTypes :
          ~get(components[k], a).some
    /\ [][~last'.panicked =>
          \A k \in DOMAIN components : \A a \in QueriedEntityTypes :
            /\ get(components'[k], a).some =
                 (get(components[k], a).some \/ PeerInsertEntityType(k, a))
            /\ PeerInsertEntityType(k, a) =>
                 get(components'[k], a).slice = <<>>]_vars

\* Archetype 1 was registered in a storage that has no archetype 0: the
\* index table is [usize::MAX, 0], and get answers for archetype 1 only.
C24_Witness ==
    /\ last.op = "insert_entity_type"
    /\ components[StoredType].indices = <<USIZE_MAX, 0>>
    /\ ~get(components[StoredType], 0).some
    /\ get(components[StoredType], 1).some
    /\ get(components[StoredType], 1).slice = <<>>
    /\ ~get(components[StoredType], 2).some

\* C25: len() of a storage is the number of archetypes registered in it by
\* insert_entity_type, whatever the number of component values appended: 0
\* on a new storage, one more after each insert_entity_type on it and the
\* same after every other call that completes; is_empty() holds exactly when get answers
\* for no archetype.
C25_LenCountsArchetypes ==
    /\ \A k \in DOMAIN components :
          /\ CompactableStorage_len(components[k]) = 0
          /\ CompactableStorage_is_empty(components[k])
    /\ [][~last'.panicked =>
          \A k \in DOMAIN components :
            /\ CompactableStorage_len(components'[k]) =
                 CompactableStorage_len(components[k])
                   + (IF \E a \in QueriedEntityTypes : PeerInsertEntityType(k, a)
                      THEN 1 ELSE 0)
            /\ CompactableStorage_is_empty(components'[k]) =
                 (\A a \in QueriedEntityTypes :
                      ~get(components'[k], a).some)]_vars

\* Two values were appended to the one archetype of a storage: len() is 1.
C25_Witness ==
    /\ last.op = "extend_memcopy"
    /\ ~last.panicked
    /\ \E k \in DOMAIN components :
          /\ CompactableStorage_len(components[k]) = 1
          /\ ~CompactableStorage_is_empty(components[k])
          /\ components[k].length = 2

\* C26: transfer_entity_type(src, dst, dst_storage) to a storage of the same
\* component type moves all rows: it completes, the source array of src is
\* empty afterwards and the destination array of dst holds its previous
\* values followed by the source's former values in their order, whether the
\* destination array was empty or not.
C26_TransferEntityTypeMovesAllRows ==
    [][\A k, dk \in DOMAIN components :
       \A src \in EntityTypesOf(k) : \A dst \in EntityTypesOf(dk) :
          (ElementType(dk) = ElementType(k)
             /\ TransferEntityType(k, src, dst, dk)) =>
            /\ ~last'.panicked
            /\ get(components'[k], src).slice = <<>>
            /\ get(components'[dk], dst).slice =
                 get(components[dk], dst).slice
                   \o get(components[k], src).slice]_vars

\* C27: move_component(src, row, dst) between two archetypes of a storage
\* has the effect of swap_remove(src, row) followed by an append of the
\* removed value to dst: it completes, the source array is the one
\* swap_remove leaves, the destination array is the former one with the
\* moved value last, and the storage's length is unchanged.
C27_MoveIsSwapRemoveThenAppend ==
    [][\A k \in DOMAIN components : \A src, dst \in EntityTypesOf(k) :
       \A row \in StoredRows :
          (src # dst /\ MoveComponent(k, src, row, dst)) =>
            /\ ~last'.panicked
            /\ get(components'[k], src).slice =
                 get(swap_remove_internal(components[k], src, row).storage,
                     src).slice
            /\ get(components'[k], dst).slice =
                 Append(get(components[k], dst).slice,
                        get(components[k], src).slice[row + 1])
            /\ components'[k].length = components[k].length]_vars

\* C28: transfer_component(src, row, dst, dst_storage) to a storage of
\* another component type fails and appends nothing to that storage; to a
\* storage of the same component type it takes one from the source's length
\* and adds one to the destination's.
C28_TransferComponentChecksType ==
    [][\A k, dk \in DOMAIN components :
       \A src \in EntityTypesOf(k) : \A dst \in EntityTypesOf(dk) :
       \A row \in StoredRows :
          TransferComponent(k, src, row, dst, dk) =>
            IF ElementType(dk) # ElementType(k)
            THEN /\ last'.panicked
                 /\ components'[dk] = components[dk]
            ELSE /\ ~last'.panicked
                 /\ components'[k].length = components[k].length - 1
                 /\ components'[dk].length = components[dk].length + 1]_vars

----------------------------------------------------------------------------
\* Write sessions (world.rs): a MultiViewMut taken from the component map
\* with components_mut().get_multi_view_mut(), or the EntityTypeWriter that
\* World::extend_out hands to the source's push_components.  The variable
\* writer holds the session in progress: its EntityTypeWriter or its
\* MultiViewMut, and the component types of the storage handles it has
\* given out, in the order of the claims.

\* The handles one session may give out.
MaxClaims == 2

\* A session of a writer (view = <<>>) or of a view alone (writer = <<>>).
Session(w, view, handles) ==
    <<[writer |-> w, view |-> view, handles |-> handles]>>

\* The record of a session call: the operation, the component type claimed,
\* whether a storage handle was returned, whether the call panicked.
SessionCall(op, T, returned, panicked) ==
    [op |-> op, T |-> T, returned |-> returned, panicked |-> panicked]

SessionInit ==
    /\ entities = World_new.entities
    /\ entity_types = World_new.entity_types
    /\ entity_allocator = World_new.entity_allocator
    /\ components = World_new.components
    /\ allocation_buffer = <<>>
    /\ writer = NoWriter
    /\ last = SessionCall("new", "", FALSE, FALSE)

\* The variables a claim and the end of a session leave alone.
SessionFrame ==
    UNCHANGED <<entities, entity_types, entity_allocator, components,
                allocation_buffer>>

\* world.components_mut().get_multi_view_mut()
GetMultiViewMut ==
    /\ writer = NoWriter
    /\ writer' = Session(<<>>, <<MultiViewMut_new>>, <<>>)
    /\ last' = SessionCall("get_multi_view_mut", "", FALSE, FALSE)
    /\ SessionFrame

\* World::extend_out up to the call of push_components: the archetype of the
\* source is found or created, and a writer on it is made with a new view.
OpenWriter(src) ==
    /\ writer = NoWriter
    /\ WithinBounds(src)
    /\ Let(get_entity_type_for_components(World, src), LAMBDA t :
           /\ Becomes(t.w)
           /\ writer' = Session(
                  <<EntityTypeWriter_new(t.index, At(t.w.entity_types, t.index),
                                         MultiViewMut_new)>>,
                  <<>>, <<>>))
    /\ allocation_buffer' = allocation_buffer
    /\ last' = SessionCall("extend_out", "", FALSE, FALSE)

\* view.claim::<T>() on the MultiViewMut of the session.
Claim(T) ==
    /\ writer # NoWriter
    /\ writer[1].view # <<>>
    /\ Len(writer[1].handles) < MaxClaims
    /\ Let(MultiViewMut_claim(writer[1].view[1], components, T), LAMBDA c :
           /\ writer' = Session(<<>>, <<c.view>>,
                                IF c.some
                                THEN Append(writer[1].handles, T)
                                ELSE writer[1].handles)
           /\ last' = SessionCall("claim", T, c.some, FALSE))
    /\ SessionFrame

\* writer.claim_components::<T>() on the EntityTypeWriter of the session; a
\* panic unwinds out of push_components and extend_out, which ends the
\* session.
ClaimComponents(T) ==
    /\ writer # NoWriter
    /\ writer[1].writer # <<>>
    /\ Len(writer[1].handles) < MaxClaims
    /\ Let(claim_components(writer[1].writer[1], components, T), LAMBDA r :
           /\ writer' = IF r.ok
                        THEN Session(<<r.writer>>, <<>>,
                                     Append(writer[1].handles, T))
                        ELSE NoWriter
           /\ last' = SessionCall("claim_components", T, r.ok, ~r.ok))
    /\ SessionFrame

\* writer.push(entity) with the next entity of the stream push_components
\* is given, which is the world's allocator.
WriterPush ==
    /\ writer # NoWriter
    /\ writer[1].writer # <<>>
    /\ entity_allocator.max_id < MaxEntities
    /\ Let(EntityAllocator_next(entity_allocator), LAMBDA a :
           /\ entity_allocator' = a.allocator
           /\ entity_types' = EntityTypeWriter_push(writer[1].writer[1],
                                                    entity_types, a.entity))
    /\ last' = SessionCall("push", "", FALSE, FALSE)
    /\ UNCHANGED <<entities, components, allocation_buffer, writer>>

\* The session ends: the MultiViewMut is dropped, or push_components
\* returns and extend_out goes on to EntityLocationMap::insert with what
\* writer.inserted() returns; the entities it displaced are then removed.
EndSession ==
    /\ writer # NoWriter
    /\ writer' = NoWriter
    /\ IF writer[1].writer = <<>>
       THEN /\ last' = SessionCall("drop", "", FALSE, FALSE)
            /\ SessionFrame
       ELSE Let(inserted(writer[1].writer[1], entity_types), LAMBDA n :
            Let(EntityLocationMap_insert(
                    entities, n.slice,
                    writer[1].writer[1].entity_type_index, n.base),
                LAMBDA i :
                IF ~i.ok
                THEN /\ last' = SessionCall("end", "", FALSE, TRUE)
                     /\ SessionFrame
                ELSE Let(remove_replaced([World EXCEPT !.entities = i.locations],
                                         i.replaced),
                         LAMBDA r :
                           /\ Becomes(r.w)
                           /\ allocation_buffer' = allocation_buffer
                           /\ last' = SessionCall("end", "", FALSE, ~r.ok))))

\* The sources that open a writer: a pair of each two component types.
SessionSources == {src \in PairSources : src.v1 = 0 /\ src.v2 = 0}

SessionNext ==
    \/ GetMultiViewMut
    \/ \E src \in SessionSources : OpenWriter(src)
    \/ \E T \in ComponentTypes : Claim(T)
    \/ \E T \in ComponentTypes : ClaimComponents(T)
    \/ EndSession

SpecSession == SessionInit /\ [][SessionNext]_vars

\* C29: within one write session a storage handle of a component type is
\* given out at most once: a claim::<T>() or claim_components::<T>() of a
\* type already in the claimed set returns no handle, so the handles of a
\* session are of pairwise distinct component types (distinct storages).
C29_ClaimedAtMostOnce ==
    [][\A T \in ComponentTypes :
          /\ (Claim(T)
                /\ ComponentTypeIndex_of(T) \in writer[1].view[1].claimed)
               => ~last'.returned
          /\ (ClaimComponents(T)
                /\ ComponentTypeIndex_of(T)
                     \in writer[1].writer[1].components.claimed)
               => ~last'.returned
          /\ (writer' # NoWriter =>
                \A i, j \in DOMAIN writer'[1].handles :
                    i # j => writer'[1].handles[i] # writer'[1].handles[j])]_vars

\* C30: claim_components::<T>() for a component type T that is not in the
\* layout of the writer's archetype fails and returns no ComponentWriter,
\* whether or not the component map has a storage of T.
C30_ClaimOutsideLayoutFails ==
    [][\A T \in ComponentTypes :
          (ClaimComponents(T)
             /\ ~EntityLayout_contains_component(
                    At(entity_types,
                       writer[1].writer[1].entity_type_index).layout, T))
            => (last'.panicked /\ ~last'.returned)]_vars

----------------------------------------------------------------------------
\* The entities of a write session (world.rs): World::extend_out makes a
\* writer on the archetype of the source, the source pushes entities it
\* takes from the allocator through the writer, and extend_out reads
\* writer.inserted() when the source returns.

\* The sources that fill archetypes: a pair of a Position and a value of
\* each component type.
WriterSources == {src \in SessionSources : src.t1 = "Position"}

WriterNext ==
    \/ \E src \in WriterSources : OpenWriter(src)
    \/ WriterPush
    \/ EndSession

SpecWriter == SessionInit /\ [][WriterNext]_vars

\* C31: writer.inserted() returns as base row the entity count the
\* archetype had when the writer was created and as slice the entities
\* pushed through the writer, in the order of the pushes: right after the
\* writer is created it is (the archetype's entity count, no entity), each
\* writer.push(entity) keeps the base and appends the entity to the slice,
\* and no entity of a row below the base is in the slice.
C31_InsertedIsWhatWasPushed ==
    [][/\ \A src \in WriterSources :
            OpenWriter(src) =>
              inserted(writer'[1].writer[1], entity_types') =
                [base  |-> Len(At(entity_types',
                                  writer'[1].writer[1].entity_type_index)
                                 .entities),
                 slice |-> <<>>]
       /\ WriterPush =>
            inserted(writer'[1].writer[1], entity_types') =
              [base  |-> inserted(writer[1].writer[1], entity_types).base,
               slice |-> Append(
                   inserted(writer[1].writer[1], entity_types).slice,
                   EntityAllocator_next(entity_allocator).entity)]
       /\ (writer' # NoWriter /\ writer'[1].writer # <<>>) =>
            \A row \in 1..inserted(writer'[1].writer[1], entity_types').base :
                At(entity_types', writer'[1].writer[1].entity_type_index)
                    .entities[row]
                  \notin Range(inserted(writer'[1].writer[1],
                                        entity_types').slice)]_vars

\* A writer on an archetype that held an entity has pushed two more.
C31_Witness ==
    /\ last.op = "push"
    /\ writer # NoWriter
    /\ writer[1].writer # <<>>
    /\ inserted(writer[1].writer[1], entity_types).base = 1
    /\ Len(inserted(writer[1].writer[1], entity_types).slice) = 2
    /\ Len(At(entity_types, writer[1].writer[1].entity_type_index).entities) = 3

----------------------------------------------------------------------------
\* One archetype under the two calls that change its entity list
\* (storage.rs, world.rs): push of an entity the allocator mints, and
\* swap_remove of a row it has (a row past the end panics in
\* Vec::swap_remove).

\* The entities pushed to the archetype in all.
MaxPushed == 5

\* The record of a call on the archetype: the operation and its row (the
\* row a push filled, the row a swap_remove emptied).
EntityTypeCall(op, row) == [op |-> op, row |-> row]

EntityTypeInit ==
    /\ entity_types = <<EntityType_new(0, EntityLayout_default)>>
    /\ entities = World_new.entities
    /\ entity_allocator = World_new.entity_allocator
    /\ components = World_new.components
    /\ allocation_buffer = <<>>
    /\ writer = NoWriter
    /\ last = EntityTypeCall("new", 0)

\* The variables the calls on the archetype leave alone.
EntityTypeFrame ==
    UNCHANGED <<entities, components, allocation_buffer, writer>>

\* entity_type.push(entity) with the next entity of the allocator.
PushEntity ==
    /\ entity_allocator.max_id < MaxPushed
    /\ Let(EntityAllocator_next(entity_allocator), LAMBDA a :
           /\ entity_allocator' = a.allocator
           /\ entity_types' =
                [entity_types EXCEPT ![1] = EntityType_push(@, a.entity)])
    /\ last' = EntityTypeCall("push", Len(entity_types[1].entities))
    /\ EntityTypeFrame

\* entity_type.swap_remove(row)
SwapRemoveEntity(row) ==
    /\ row < Len(entity_types[1].entities)
    /\ entity_types' =
         [entity_types EXCEPT ![1] = EntityType_swap_remove(@, row)]
    /\ entity_allocator' = entity_allocator
    /\ last' = EntityTypeCall("swap_remove", row)
    /\ EntityTypeFrame

EntityTypeNext ==
    \/ PushEntity
    \/ \E row \in 0..(MaxPushed - 1) : SwapRemoveEntity(row)

SpecEntityType == EntityTypeInit /\ [][EntityTypeNext]_vars

\* C32: across any sequence of push and swap_remove on one archetype, a
\* push appends the entity at row n of a list of length n and leaves the
\* rows before it, and a swap_remove at row r of a list of length n leaves
\* n - 1 rows, those other than r and n - 1 in place, with the former last
\* entity at row r unless r was the last row.
C32_EntityListOrder ==
    [][/\ PushEntity =>
            entity_types'[1].entities =
                Append(entity_types[1].entities,
                       EntityAllocator_next(entity_allocator).entity)
       /\ \A row \in 0..(MaxPushed - 1) :
            SwapRemoveEntity(row) =>
              /\ Len(entity_types'[1].entities) =
                     Len(entity_types[1].entities) - 1
              /\ \A i \in 1..Len(entity_types'[1].entities) :
                    entity_types'[1].entities[i] =
                        IF i = row + 1
                        THEN entity_types[1].entities[
                                 Len(entity_types[1].entities)]
                        ELSE entity_types[1].entities[i]]_vars

\* Row 0 of four entities was removed: the last entity took its place.
C32_Witness ==
    /\ last = EntityTypeCall("swap_remove", 0)
    /\ entity_types[1].entities = <<3, 1, 2>>

\* C33: EntityLocationMap::insert(entities, a, base), as extend_out calls it
\* with a batch of at least one entity when the source returns, completes
\* and maps entities[i] to the location (a, base + i) for every index i of
\* the batch, and leaves the mappings of the entities not in the batch.
C33_InsertMapsBatch ==
    [][(EndSession /\ writer[1].writer # <<>>
          /\ inserted(writer[1].writer[1], entity_types).slice # <<>>) =>
         /\ ~last'.panicked
         /\ \A i \in 1..Len(inserted(writer[1].writer[1], entity_types).slice) :
               /\ inserted(writer[1].writer[1], entity_types).slice[i]
                    \in DOMAIN entities'
               /\ entities'[inserted(writer[1].writer[1],
                                     entity_types).slice[i]] =
                    EntityLocation(
                        writer[1].writer[1].entity_type_index,
                        inserted(writer[1].writer[1], entity_types).base
                          + i - 1)
         /\ \A e \in DOMAIN entities :
               e \notin Range(inserted(writer[1].writer[1],
                                       entity_types).slice)
                 => (e \in DOMAIN entities' /\ entities'[e] = entities[e])]_vars

\* C34: on the storage of a zero-sized type, insert_entity_type,
\* extend_memcopy and swap_remove never allocate or reallocate (the buffer
\* of every array stays the dangling one with capacity usize::MAX, and
\* RawComponentArray::grow is never entered), no call panics, and the
\* length of the array goes up by count on extend_memcopy and down by one
\* on swap_remove.
C34_ZeroSizedNeverAllocates ==
    [][(ZeroSizedType \in DOMAIN components) =>
         /\ ~last'.panicked
         /\ \A slot \in 1..Len(components'[ZeroSizedType].components) :
               components'[ZeroSizedType].components[slot].inner =
                   RawComponentArray_with_capacity_zero_sized
         /\ \A a \in EntityTypesOf(ZeroSizedType) :
               /\ \A count \in 0..MaxStored :
                     PeerExtendMemcopy(ZeroSizedType, a, count) =>
                       Len(get(components'[ZeroSizedType], a).slice) =
                         Len(get(components[ZeroSizedType], a).slice) + count
               /\ \A row \in StoredRows :
                     PeerSwapRemove(ZeroSizedType, a, row) =>
                       Len(get(components'[ZeroSizedType], a).slice) =
                         Len(get(components[ZeroSizedType], a).slice) - 1]_vars

\* C35: extend_memcopy of count values to an array of length len reserves
\* before it copies: the call completes, and when the buffer's capacity is
\* below len + count the new capacity is the larger of twice the old one and
\* len + count, and when the capacity suffices the buffer is the same as
\* before.
C35_ReserveDoublesOrKeeps ==
    [][\A a \in StorageEntityTypes : \A count \in 1..MaxArrayLen :
          (Registered(components[StoredType], a) /\ ExtendMemcopy(a, count)) =>
            LET arr == At(components[StoredType].components,
                          At(components[StoredType].indices, a))
                grown == At(components'[StoredType].components,
                            At(components[StoredType].indices, a))
            IN  /\ ~last'.panicked
                /\ IF arr.inner.capacity < arr.length + count
                   THEN grown.inner.capacity =
                          IF 2 * arr.inner.capacity > arr.length + count
                          THEN 2 * arr.inner.capacity
                          ELSE arr.length + count
                   ELSE grown.inner = arr.inner]_vars

\* C39: for every sequence of calls on the packed arrays of a type that is
\* not zero-sized, RawComponentArray::grow is only called with a new
\* capacity above the buffer's capacity, so that no extend_memcopy panics in
\* its assertion, also after a swap_remove and for a count of 0 on an array
\* that holds values; and the capacity the ComponentArray records is at
\* least its length.
C39_GrowOnlyUpwards ==
    [][\A k \in DOMAIN components :
          (ElementType(k) # "()") =>
            /\ \A a \in EntityTypesOf(k) : \A count \in 0..MaxStored :
                  PeerExtendMemcopy(k, a, count) => ~last'.panicked
            /\ \A slot \in 1..Len(components'[k].components) :
                  components'[k].components[slot].capacity >=
                      components'[k].components[slot].length]_vars

====
